---- MODULE Spec2Model ----
(***************************************************************************)
(* Execution scheduler and rollback engine of MAARS                        *)
(* (backend/task_agent/runner.py, backend/task_agent/pools.py).            *)
(*                                                                         *)
(* The runner is single-threaded asyncio code: a step of the model is the  *)
(* code a coroutine runs between two suspension points.  asyncio.Lock      *)
(* acquisition does not suspend when the lock is free, and no holder of    *)
(* _worker_lock or _start_lock suspends while holding it                   *)
(* (db.delete_task_artifact has no await inside), so the locks are always  *)
(* free when a step begins and lock bodies are part of the step.           *)
(***************************************************************************)
EXTENDS Integers, FiniteSets, Sequences, Bags, TLC

\* ------------------------------------------------------------------ bounds
\* external calls (set_layout, start_execution, stop_async, retry_task)
MaxCalls == 3
\* execute/validate attempts that may fail over a behaviour
MaxFailEvents == 2
\* largest maxExecutionConcurrency a start may supply
MaxCapacity == 2
\* largest maxFailures a start may supply
MaxMaxFailures == 2
\* slot-acquisition attempts before the fallback (50 in runner.py:244)
AcquireRetryBound == 2
\* external calls and failures of the runs that nobody stops
MaxFullRunCalls == 3
MaxFullRunFails == 1
\* nodes of the graphs the rollback closure is computed on
ClosureNodes == 5
\* slots of the worker pool of execution/pools.py (7 in pools.py:85)
PoolWorkers == 3

\* ------------------------------------------------------- program constants
\* pools.py: _DEFAULT_MAX
DEFAULT_MAX == 7
\* runner.py: _RUNNER_MAX_FAILURES default
RUNNER_MAX_FAILURES == 3

\* ------------------------------------------------------------ task graphs
Tasks == {"A", "B", "C"}

NoTask == "-"

\* The layouts set_layout may be given: the task ids of treeData, each
\* task's dependencies and whether it carries an output spec.
\*   fork:  B and C depend on A
\*   mixed: B depends on A, which has no output spec; C is independent
\*   chain: B depends on A, C on B
\*   join:  C depends on A and B
\*   free:  no dependencies
\*   pair:  only A and B; B depends on A
Layouts ==
  [ fork  |-> [ tasks |-> {"A", "B", "C"},
                deps  |-> [t \in Tasks |-> IF t \in {"B", "C"} THEN {"A"} ELSE {}],
                out   |-> [t \in Tasks |-> TRUE] ],
    chain |-> [ tasks |-> {"A", "B", "C"},
                deps  |-> [t \in Tasks |-> IF t = "B" THEN {"A"}
                                           ELSE IF t = "C" THEN {"B"} ELSE {}],
                out   |-> [t \in Tasks |-> TRUE] ],
    join  |-> [ tasks |-> {"A", "B", "C"},
                deps  |-> [t \in Tasks |-> IF t = "C" THEN {"A", "B"} ELSE {}],
                out   |-> [t \in Tasks |-> TRUE] ],
    free  |-> [ tasks |-> {"A", "B", "C"},
                deps  |-> [t \in Tasks |-> {}],
                out   |-> [t \in Tasks |-> TRUE] ],
    pair  |-> [ tasks |-> {"A", "B"},
                deps  |-> [t \in Tasks |-> IF t = "B" THEN {"A"} ELSE {}],
                out   |-> [t \in Tasks |-> TRUE] ],
    mixed |-> [ tasks |-> {"A", "B", "C"},
                deps  |-> [t \in Tasks |-> IF t = "B" THEN {"A"} ELSE {}],
                out   |-> [t \in Tasks |-> t # "A"] ] ]

LayoutIds == DOMAIN Layouts

Statuses == {"undone", "doing", "validating", "done",
             "execution-failed", "validation-failed"}

VARIABLES
  layout,             \* chain_cache / execution_layout: id of the layout set, or "none"
  mapLayout,          \* layout task_map and reverse_dependency_index were built from
  attached,           \* task_map's dicts are the dicts of chain_cache
  status,             \* chain_cache[t]["status"]
  is_running,
  running_tasks, completed_tasks, pending_tasks,
  task_tasks,         \* keys of task_tasks (the unit holding the handle has h = TRUE)
  task_failure_count, \* 0 = no entry
  MAX_FAILURES,
  abort_event,        \* "none", or the state of the asyncio.Event: "clear" / "set"
  artifacts,          \* task ids with a stored artifact (Artifact Store)
  slots_in_use, max_concurrency, task_status,   \* pools.py
  units,              \* bag of live scheduling units (run_with_error_handling coroutines)
  runs,               \* bag of start_execution invocations inside their try body
  calls, fails,       \* external calls and failures still allowed
  last,               \* what the step that led here was: [op, t, L, k]
  fb,                 \* tasks whose status was last written by the acquire fallback
  nolock,             \* tables the last step of a unit or caller changed outside _worker_lock
  cg, ct, cres,       \* closure check: graph, task, result of tasks_to_rollback
  offered,            \* ids of the layouts a caller of set_layout may supply
  workers, wret,      \* execution/pools.py: the slots, and what the last call returned
  persist_waiting,    \* _persist_execution_async coroutines created, not yet inside _persist_lock
  persist_lock,       \* _persist_lock is held: a coroutine awaits save_execution inside it
  persist_budget      \* persist coroutines still followed; the others write at once

vars == << layout, mapLayout, attached, status, is_running, running_tasks,
           completed_tasks, pending_tasks, task_tasks, task_failure_count,
           MAX_FAILURES, artifacts, slots_in_use, max_concurrency,
           task_status, units, runs, calls, fails, last, fb, nolock, abort_event,
           cg, ct, cres, offered, workers, wret,
           persist_waiting, persist_lock, persist_budget >>

runVars == << layout, mapLayout, attached, status, is_running, running_tasks,
              completed_tasks, pending_tasks, task_tasks, task_failure_count,
              MAX_FAILURES, artifacts, slots_in_use, max_concurrency,
              task_status, units, runs, calls, fails, last, fb, nolock, abort_event,
              offered, persist_waiting, persist_lock, persist_budget >>

closureVars == << cg, ct, cres >>

slotVars == << workers, wret >>

persistVars == << persist_waiting, persist_lock, persist_budget >>

\* ------------------------------------------------------------ bag helpers
RECURSIVE SumCopies(_, _)
SumCopies(S, B) ==
  IF S = {} THEN 0
  ELSE LET x == CHOOSE y \in S : TRUE
       IN CopiesIn(x, B) + SumCopies(S \ {x}, B)

\* the bag of f[x] for the elements x of B
BagMap(B, f) ==
  LET S == BagToSet(B)
      T == {f[x] : x \in S}
  IN [e \in T |-> SumCopies({x \in S : f[x] = e}, B)]

BagAdd(B, e) == B (+) SetToBag({e})
BagDel(B, e) == B (-) SetToBag({e})

\* --------------------------------------------------- rollback closure (pure)
\* reverse_dependency_index as start_execution builds it from a task list:
\* only dependency ids that are task ids get an entry.
ReverseIndex(tasks, deps) ==
  [d \in tasks |-> {t \in tasks : d \in deps[t]}]

RevGet(rdi, tid) == IF tid \in DOMAIN rdi THEN rdi[tid] ELSE {}

\* find_downstream(tid) of _rollback_task, threading the two sets the closure
\* mutates: acc.r = tasks_to_rollback, acc.v = visited.
RECURSIVE find_downstream(_, _, _)
RECURSIVE find_downstream_each(_, _, _)
find_downstream(tid, rdi, acc) ==
  IF tid \in acc.v THEN acc
  ELSE find_downstream_each(RevGet(rdi, tid), rdi, [acc EXCEPT !.v = @ \cup {tid}])

\* a find_downstream that adds the direct dependents and does not descend
find_downstream_each_shallow(todo, rdi, acc) ==
  [acc EXCEPT !.r = @ \cup todo]

find_downstream_each(todo, rdi, acc) ==
  IF todo = {} THEN acc
  ELSE LET d == CHOOSE x \in todo : TRUE
           a1 == IF d \notin acc.r
                 THEN find_downstream(d, rdi, [acc EXCEPT !.r = @ \cup {d}])
                 ELSE acc
       IN find_downstream_each(todo \ {d}, rdi, a1)

RECURSIVE find_downstream_roots(_, _, _)
find_downstream_roots(roots, rdi, acc) ==
  IF roots = {} THEN acc
  ELSE LET d == CHOOSE x \in roots : TRUE
       IN find_downstream_roots(roots \ {d}, rdi, find_downstream(d, rdi, acc))

\* a rollback that resets every task of the graph
tasks_to_rollback_all(tid, tdeps, rdi) ==
  {tid} \cup tdeps \cup DOMAIN rdi

\* tasks_to_rollback of _rollback_task for a task with dependencies tdeps
tasks_to_rollback(tid, tdeps, rdi) ==
  LET a0 == [r |-> {tid} \cup tdeps, v |-> {}]
      a1 == find_downstream_roots(tdeps, rdi, a0)
      a2 == find_downstream(tid, rdi, a1)
  IN a2.r

\* a resume that forgets the dependents
get_downstream_only_self(tid, rdi) == {tid}

\* _get_downstream_task_ids
RECURSIVE collect(_, _, _)
RECURSIVE collect_each(_, _, _)
collect(tid, rdi, acc) ==
  IF tid \in acc.v THEN acc
  ELSE collect_each(RevGet(rdi, tid), rdi,
                    [r |-> acc.r \cup {tid}, v |-> acc.v \cup {tid}])

collect_each(todo, rdi, acc) ==
  IF todo = {} THEN acc
  ELSE LET d == CHOOSE x \in todo : TRUE
       IN collect_each(todo \ {d}, rdi, collect(d, rdi, acc))

get_downstream_task_ids(tid, rdi) ==
  collect(tid, rdi, [r |-> {tid}, v |-> {}]).r

\* ------------------------------------------------------------------ pool
\* pools.py keeps _slots_in_use, _max_concurrency and _task_status; the
\* mutable part travels in the record s (n = _slots_in_use, st = _task_status,
\* "none" = no entry).
assign_task(s, tid) ==
  IF s.n >= max_concurrency THEN s
  ELSE [s EXCEPT !.n = @ + 1, !.st[tid] = "busy"]

release_by_task_id(s, tid) ==
  IF s.st[tid] # "none" THEN [s EXCEPT !.st[tid] = "none", !.n = @ - 1]
  ELSE s

set_task_status(s, tid, v) ==
  IF s.st[tid] # "none" THEN [s EXCEPT !.st[tid] = v] ELSE s

\* initialize(max_concurrency): value of _max_concurrency
initialize_max(c) == IF c > 1 THEN c ELSE 1

NoSlots == [t \in Tasks |-> "none"]

\* ------------------------------------------- slot pool (execution/pools.py)
\* workers: the list of slots, ids 1..PoolWorkers in list order; taskId
\* NoTask = None.  A call returns a slot id, 0 = None.
WorkerIds == 1..PoolWorkers

WorkerStatuses == {"idle", "busy", "validating", "failed"}

\* set_status stores whatever string it is given; "other" stands for every
\* string that is not one of the four statuses
StatusStrings == WorkerStatuses \cup {"other"}

\* init()
pool_init == [i \in WorkerIds |-> [status |-> "idle", taskId |-> NoTask]]

\* get_idle(): the scan of the list from slot i on
RECURSIVE pool_get_idle(_, _)
pool_get_idle(w, i) ==
  IF i > PoolWorkers THEN 0
  ELSE IF w[i].status = "idle" THEN i
  ELSE pool_get_idle(w, i + 1)

\* a get_idle that scans the list from its end
RECURSIVE pool_get_idle_last(_, _)
pool_get_idle_last(w, i) ==
  LET j == PoolWorkers + 1 - i
  IN IF i > PoolWorkers THEN 0
     ELSE IF w[j].status = "idle" THEN j
     ELSE pool_get_idle_last(w, i + 1)

\* a pick that prefers the last idle slot of the list
pool_pick_last(w) == pool_get_idle_last(w, 1)

\* the slot assign_task(task_id) picks
pool_pick(w) == pool_get_idle(w, 1)

\* assign_task(task_id): the pool after the call
pool_assign_task(w, tid) ==
  LET i == pool_pick(w)
  IN IF i # 0 THEN [w EXCEPT ![i] = [status |-> "busy", taskId |-> tid]] ELSE w

\* release_by_task_id(task_id): the first slot bound to the task, 0 = none
RECURSIVE pool_find_task(_, _, _)
pool_find_task(w, tid, i) ==
  IF i > PoolWorkers THEN 0
  ELSE IF w[i].taskId = tid THEN i
  ELSE pool_find_task(w, tid, i + 1)

pool_release_by_task_id(w, tid) ==
  LET i == pool_find_task(w, tid, 1)
  IN IF i # 0 /\ w[i].status \in {"busy", "validating", "failed"}
     THEN [w EXCEPT ![i] = [status |-> "idle", taskId |-> NoTask]]
     ELSE w

\* set_status(wid, status)
pool_set_status(w, wid, st) ==
  IF wid \in WorkerIds THEN [w EXCEPT ![wid].status = st] ELSE w

\* a get_stats that leaves slots with an unknown status alone
pool_normalize_none(w) == w

\* get_stats(), lines 59-62: slots with an unknown status are reset
pool_normalize(w) ==
  [i \in WorkerIds |->
     IF w[i].status \notin WorkerStatuses
     THEN [status |-> "idle", taskId |-> NoTask] ELSE w[i]]

CountStatus(w, st) == Cardinality({i \in WorkerIds : w[i].status = st})

StatsOf(w) ==
  [total |-> PoolWorkers, busy |-> CountStatus(w, "busy"),
   validating |-> CountStatus(w, "validating"), idle |-> CountStatus(w, "idle"),
   failed |-> CountStatus(w, "failed")]

StatsSum(st) == st.busy + st.validating + st.idle + st.failed

\* get_stats(), lines 63-70: the pool after the call
pool_get_stats(w) ==
  LET n == pool_normalize(w)
  IN IF StatsSum(StatsOf(n)) # PoolWorkers THEN pool_init ELSE n

\* get_stats(): the dict returned
pool_stats_result(w) ==
  LET n == pool_normalize(w)
  IN IF StatsSum(StatsOf(n)) # PoolWorkers THEN StatsOf(pool_init) ELSE StatsOf(n)

NoStats == [total |-> 0, busy |-> 0, validating |-> 0, idle |-> 0, failed |-> 0]

\* what a call on the pool did: op, its argument, the value returned (s is
\* the dict get_stats returned)
PoolDid(op, t, r) == [op |-> op, t |-> t, r |-> r, s |-> NoStats]

PoolAssign ==
  \E tid \in Tasks :
    /\ workers' = pool_assign_task(workers, tid)
    /\ wret' = PoolDid("assign", tid, pool_pick(workers))
    /\ UNCHANGED << runVars, closureVars >>

PoolRelease ==
  \E tid \in Tasks :
    /\ workers' = pool_release_by_task_id(workers, tid)
    /\ wret' = PoolDid("release", tid, pool_find_task(workers, tid, 1))
    /\ UNCHANGED << runVars, closureVars >>

PoolSetStatus ==
  \E wid \in WorkerIds, st \in StatusStrings :
    /\ workers' = pool_set_status(workers, wid, st)
    /\ wret' = PoolDid("set_status", NoTask, wid)
    /\ UNCHANGED << runVars, closureVars >>

PoolInitialize ==
  /\ workers' = pool_init
  /\ wret' = PoolDid("initialize", NoTask, 0)
  /\ UNCHANGED << runVars, closureVars >>

PoolStats ==
  /\ workers' = pool_get_stats(workers)
  /\ wret' = [PoolDid("stats", NoTask, 0) EXCEPT !.s = pool_stats_result(workers)]
  /\ UNCHANGED << runVars, closureVars >>

\* ------------------------------------------------------- runner: helpers
\* The state a step of a coroutine reads and writes, threaded through the
\* statements of the step.
Cur ==
  [ n |-> slots_in_use, st |-> task_status,
    run |-> running_tasks, comp |-> completed_tasks, pend |-> pending_tasks,
    stat |-> status, tt |-> task_tasks, cnt |-> task_failure_count,
    units |-> units, art |-> artifacts, fails |-> fails,
    last |-> last, fb |-> fb, nl |-> {},
    pq |-> persist_waiting, pb |-> persist_budget ]

Commit(s) ==
  /\ slots_in_use' = s.n
  /\ task_status' = s.st
  /\ running_tasks' = s.run
  /\ completed_tasks' = s.comp
  /\ pending_tasks' = s.pend
  /\ status' = s.stat
  /\ task_tasks' = s.tt
  /\ task_failure_count' = s.cnt
  /\ units' = s.units
  /\ artifacts' = s.art
  /\ fails' = s.fails
  /\ last' = s.last
  /\ fb' = s.fb
  /\ nolock' = s.nl
  /\ persist_waiting' = s.pq
  /\ persist_budget' = s.pb
  /\ persist_lock' = persist_lock

\* task_map: its keys, and the dependencies recorded in its dicts
TaskMapKeys == IF mapLayout = "none" THEN {} ELSE Layouts[mapLayout].tasks
MapDeps(tid) == Layouts[mapLayout].deps[tid]
ChainTasks == IF layout = "none" THEN {} ELSE Layouts[layout].tasks

reverse_dependency_index ==
  IF mapLayout = "none" THEN [d \in {} |-> {}]
  ELSE ReverseIndex(Layouts[mapLayout].tasks, Layouts[mapLayout].deps)

\* a readiness test that ignores the dependencies
are_dependencies_satisfied_always(deps, comp) == TRUE

\* _are_dependencies_satisfied
are_dependencies_satisfied(deps, comp) == \A d \in deps : d \in comp

\* _persist_execution (lines 62-68): a coroutine _persist_execution_async is
\* created when a plan and a non-empty chain_cache are set
persist_execution(s) ==
  IF layout # "none" /\ Layouts[layout].tasks # {} /\ s.pb > 0
  THEN [s EXCEPT !.pq = @ + 1, !.pb = @ - 1]
  ELSE s

\* _update_task_status: writes task_map[tid]["status"]; the dict is one of
\* chain_cache only while task_map is attached to it.
update_task_status(s, tid, v) ==
  persist_execution(IF attached /\ tid \in TaskMapKeys
                    THEN [s EXCEPT !.stat[tid] = v, !.fb = @ \ {tid}]
                    ELSE s)

\* the record of a step: op names what the step did to task t (for a unit,
\* of layout L); k is the number of the failure a retry or rollback answers
Did(op, t, L, k) == [op |-> op, t |-> t, L |-> L, k |-> k]
Quiet == Did("none", NoTask, "none", 0)

\* A unit: the coroutine run_with_error_handling(t).
\*   pc  "new"   created, not yet run
\*       "acq"   asleep in the acquire loop, rc attempts made
\*       "exec"  awaiting resolve_artifacts / execute_task / save_task_artifact
\*       "val"   awaiting validation and the report chunks
\*       "efail" asleep 1 s after an execution failure (fc = count read before)
\*       "vfail" asleep 1 s after a validation failure
\*   ab  the abort event the external call was given has been set
\*   h   task_tasks[t] is this coroutine
\*   L   layout the unit's task dict comes from
NewUnit(tid) ==
  [t |-> tid, pc |-> "new", rc |-> 0, fc |-> 0, ab |-> FALSE, h |-> TRUE, L |-> mapLayout]

UnitAt(u, pc, rc, fc) ==
  [u EXCEPT !.pc = pc, !.rc = rc, !.fc = fc,
            !.ab = (pc \in {"exec", "val"} /\ abort_event = "set")]

\* the units of tasks X lose their handle (task_tasks.pop / clear / overwrite)
DropHandles(B, X) ==
  BagMap(B, [r \in BagToSet(B) |->
               IF r.h /\ r.t \in X THEN [r EXCEPT !.h = FALSE] ELSE r])

\* task_tasks[tid] = asyncio.create_task(run_with_error_handling()) for tid in X
Launch(s, X) ==
  [s EXCEPT !.units = DropHandles(@, X) (+) SetToBag({NewUnit(tid) : tid \in X}),
            !.tt = @ \cup X]

\* a scheduler that launches nothing
schedule_ready_tasks_none(s, check) == s

\* _schedule_ready_tasks
schedule_ready_tasks(s, check) ==
  IF check = {} \/ ~is_running THEN s
  ELSE LET ready == {tid \in check :
                       /\ tid \notin s.comp
                       /\ tid \notin s.run
                       /\ tid \in s.pend
                       /\ are_dependencies_satisfied(MapDeps(tid), s.comp)}
       IN Launch(s, {tid \in ready : tid \notin s.tt})

Dependents(tid) == RevGet(reverse_dependency_index, tid) \cap TaskMapKeys

\* The statements that took s0 to s1 are not inside "async with
\* self._worker_lock": the tables they changed are recorded.
TablesChanged(pend0, run0, comp0, n0, st0, pend1, run1, comp1, n1, st1) ==
  {x \in {"pending"} : pend1 # pend0} \cup {x \in {"running"} : run1 # run0}
  \cup {x \in {"completed"} : comp1 # comp0}
  \cup {x \in {"pool"} : n1 # n0 \/ st1 # st0}

outside_lock(s0, s1) ==
  [s1 EXCEPT !.nl = @ \cup TablesChanged(s0.pend, s0.run, s0.comp, s0.n, s0.st,
                                         s1.pend, s1.run, s1.comp, s1.n, s1.st)]

\* a handler that swallows the error
handle_task_error_ignored(s, tid) == s

\* _handle_task_error: the release under the lock (449-450), the sets after it
handle_task_error(s, tid) ==
  LET s1 == release_by_task_id(s, tid)
      s2 == outside_lock(s1, [s1 EXCEPT !.comp = @ \cup {tid}, !.run = @ \ {tid}, !.pend = @ \ {tid}])
      s3 == update_task_status(s2, tid, "execution-failed")
  IN schedule_ready_tasks(s3, Dependents(tid))

\* a unit that ends where the loop ends
acquire_fallback_silent(s, tid) == s

\* _execute_task, lines 255-263: no slot was obtained
acquire_fallback(s, tid) ==
  LET s1 == outside_lock(s, [s EXCEPT !.comp = @ \cup {tid}, !.run = @ \ {tid}, !.pend = @ \ {tid}])
      s2 == update_task_status(s1, tid, "done")
      s3 == IF attached /\ tid \in TaskMapKeys THEN [s2 EXCEPT !.fb = @ \cup {tid}] ELSE s2
  IN schedule_ready_tasks(s3, Dependents(tid))

\* _execute_task, lines 265-273, after a slot was assigned: up to the first
\* suspension inside the try block, or through the ValueError of a task
\* without output spec, its release at line 401 and _handle_task_error.
after_slot(s, u) ==
  LET s1 == update_task_status(outside_lock(s, [s EXCEPT !.run = @ \cup {u.t}]), u.t, "doing")
  IN IF ~Layouts[u.L].out[u.t]
     THEN handle_task_error(release_by_task_id(s1, u.t), u.t)
     ELSE [s1 EXCEPT !.units = BagAdd(@, UnitAt(u, "exec", 0, 0))]

\* one evaluation of the acquire loop's condition and body, rc attempts made
acquire_loop(s, u, rc) ==
  IF is_running /\ rc < AcquireRetryBound
  THEN IF s.n >= max_concurrency
       THEN [s EXCEPT !.units = BagAdd(@, UnitAt(u, "acq", rc + 1, 0))]
       ELSE after_slot(assign_task(s, u.t), u)
  ELSE acquire_fallback(s, u.t)

\* _execute_task from its first line
execute_task(s, u) ==
  IF ~is_running THEN s ELSE acquire_loop(s, u, 0)

\* a threshold that is off by one
should_retry_late(fc, maxf) == fc < maxf

\* failure_count < self.MAX_FAILURES - 1
should_retry(fc, maxf) == fc < maxf - 1

\* a reset that leaves alone the tasks a unit is running
rollback_reset_idle(s, known, closure) ==
  LET idle == known \ s.run
  IN [s EXCEPT !.comp = @ \ idle,
               !.pend = @ \cup idle,
               !.stat = [t \in Tasks |-> IF attached /\ t \in idle THEN "undone" ELSE @[t]],
               !.fb = IF attached THEN @ \ idle ELSE @,
               !.cnt = [t \in Tasks |-> IF t \in idle THEN 0 ELSE @[t]],
               !.tt = @ \ idle,
               !.units = DropHandles(@, idle),
               !.st = [t \in Tasks |-> IF t \in idle THEN "none" ELSE @[t]],
               !.n = @ - Cardinality({t \in idle : s.st[t] # "none"}),
               !.art = @ \ closure]

\* _rollback_task, lines 505-518: the reset of the tasks of the closure that
\* task_map knows, and the deletion of the closure's artifacts
rollback_reset(s, known, closure) ==
  [s EXCEPT !.comp = @ \ known,
            !.pend = @ \cup known,
            !.run = @ \ known,
            !.stat = [t \in Tasks |-> IF attached /\ t \in known THEN "undone" ELSE @[t]],
            !.fb = IF attached THEN @ \ known ELSE @,
            !.cnt = [t \in Tasks |-> IF t \in known THEN 0 ELSE @[t]],
            !.tt = @ \ known,
            !.units = DropHandles(@, known),
            !.st = [t \in Tasks |-> IF t \in known THEN "none" ELSE @[t]],
            !.n = @ - Cardinality({t \in known : s.st[t] # "none"}),
            !.art = @ \ closure]

\* _rollback_task
rollback_task(s, u) ==
  LET closure == tasks_to_rollback(u.t, Layouts[u.L].deps[u.t], reverse_dependency_index)
      known == closure \cap TaskMapKeys
      s1 == [rollback_reset(s, known, closure) EXCEPT
               !.last = Did("rollback", u.t, u.L, u.fc + 1)]
      ready == {tid \in known :
                  /\ are_dependencies_satisfied(MapDeps(tid), s1.comp)
                  /\ tid \in s1.pend}
  IN schedule_ready_tasks(s1, ready)

\* lines 324-333 / 390-399: retry in place or roll back
retry_or_rollback(s, u) ==
  LET s1 == outside_lock(s, [s EXCEPT !.run = @ \ {u.t}, !.comp = @ \ {u.t}])
  IN IF should_retry(u.fc, MAX_FAILURES)
     THEN execute_task([s1 EXCEPT !.last = Did("retried", u.t, u.L, u.fc + 1)], u)
     ELSE rollback_task(s1, u)

\* the record of failure: status, task_failure_count
record_failure(s, tid, st) ==
  LET s1 == update_task_status(s, tid, st)
  IN [s1 EXCEPT !.cnt[tid] = @ + 1, !.fails = @ - 1]

\* lines 407-425: validation passed
task_done(s, tid) ==
  LET s1 == release_by_task_id(s, tid)
      s2 == outside_lock(s1, [s1 EXCEPT !.run = @ \ {tid}, !.comp = @ \cup {tid}, !.pend = @ \ {tid}])
      s3 == update_task_status(s2, tid, "done")
      s4 == [s3 EXCEPT !.cnt[tid] = 0]
      roots == {t \in ChainTasks : Layouts[layout].deps[t] = {}
                                   /\ t \in s4.pend /\ t \notin s4.run}
      sat == {t \in s4.pend \cap TaskMapKeys :
                /\ t \notin s4.run /\ t \notin s4.comp
                /\ are_dependencies_satisfied(MapDeps(t), s4.comp)}
  IN schedule_ready_tasks(s4, (Dependents(tid) \cup roots \cup sat) \cap TaskMapKeys)

\* ------------------------------------------------------------ unit steps
StepOf(u) == [Cur EXCEPT !.units = BagDel(@, u), !.last = Quiet]

UnitsAt(pcs) == {u \in BagToSet(units) : u.pc \in pcs}

NoRunChange ==
  UNCHANGED << layout, mapLayout, attached, is_running, MAX_FAILURES,
               max_concurrency, runs, calls, abort_event, closureVars, offered, slotVars >>

\* a cancellation caught like any exception of the execute call
cancelled_as_failure(s, u) ==
  LET s1 == record_failure(s, u.t, "execution-failed")
      s2 == release_by_task_id(s1, u.t)
  IN [s2 EXCEPT !.units = BagAdd(@, UnitAt(u, "efail", 0, s.cnt[u.t]))]

\* asyncio.CancelledError raised inside the try blocks of _execute_task: a
\* BaseException, caught neither by "except Exception" at line 312 nor at
\* line 401 nor by run_with_error_handling; the coroutine ends where it is.
cancelled(s, u) == s

\* first run of a created coroutine: _execute_task from its first line
UnitStart ==
  \E u \in UnitsAt({"new"}) :
    /\ Commit(execute_task(StepOf(u), u))
    /\ NoRunChange

\* wake-up from the sleep of the acquire loop (line 248)
UnitAcquire ==
  \E u \in UnitsAt({"acq"}) :
    /\ Commit(acquire_loop(StepOf(u), u, u.rc))
    /\ NoRunChange

\* execute_task/run_task_agent returned and save_task_artifact completed
\* (lines 308-311, 336-338): the slot is kept and marked validating
ExecPass ==
  \E u \in UnitsAt({"exec"}) :
    /\ LET s1 == [StepOf(u) EXCEPT !.art = @ \cup {u.t}]
           s2 == outside_lock(s1, set_task_status(s1, u.t, "validating"))
           s3 == update_task_status(s2, u.t, "validating")
       IN Commit([s3 EXCEPT !.units = BagAdd(@, UnitAt(u, "val", 0, 0))])
    /\ NoRunChange

\* the try block of lines 274-314 raised an Exception (lines 316-323)
ExecFail ==
  \E u \in UnitsAt({"exec"}) :
    /\ fails > 0
    /\ LET s0 == StepOf(u)
           s1 == record_failure(s0, u.t, "execution-failed")
           s2 == release_by_task_id(s1, u.t)
       IN Commit([s2 EXCEPT !.units =
                    BagAdd(@, UnitAt(u, "efail", 0, s0.cnt[u.t]))])
    /\ NoRunChange

\* the external call raises asyncio.CancelledError because the abort event
\* it was given is set
ExecCancel ==
  \E u \in UnitsAt({"exec"}) :
    /\ u.ab
    /\ Commit([cancelled(StepOf(u), u) EXCEPT !.last = Did("cancelled", u.t, u.L, 0)])
    /\ NoRunChange

\* validation passed (lines 378-381, 407-425)
ValPass ==
  \E u \in UnitsAt({"val"}) :
    /\ Commit(task_done(StepOf(u), u.t))
    /\ NoRunChange

\* validation failed (lines 383-386)
ValFail ==
  \E u \in UnitsAt({"val"}) :
    /\ fails > 0
    /\ LET s0 == StepOf(u)
           s1 == record_failure(s0, u.t, "validation-failed")
       IN Commit([s1 EXCEPT !.units =
                    BagAdd(@, UnitAt(u, "vfail", 0, s0.cnt[u.t]))])
    /\ NoRunChange

ValCancel ==
  \E u \in UnitsAt({"val"}) :
    /\ u.ab
    /\ Commit([cancelled(StepOf(u), u) EXCEPT !.last = Did("cancelled", u.t, u.L, 0)])
    /\ NoRunChange

\* wake-up 1 s after an execution failure (lines 324-333)
ExecFailWake ==
  \E u \in UnitsAt({"efail"}) :
    /\ Commit(retry_or_rollback(StepOf(u), u))
    /\ NoRunChange

\* wake-up 1 s after a validation failure (lines 387-399)
ValFailWake ==
  \E u \in UnitsAt({"vfail"}) :
    /\ Commit(retry_or_rollback(release_by_task_id(StepOf(u), u.t), u))
    /\ NoRunChange

\* ----------------------------------------------------------- run control
\* checks that forget the run in progress
start_rejected_unguarded == layout = "none" \/ ChainTasks = {}

\* the checks of start_execution under _start_lock (lines 141-146)
start_rejected == is_running \/ layout = "none" \/ ChainTasks = {}

\* _get_ready_tasks
get_ready_tasks(s) ==
  {tid \in s.pend \cap TaskMapKeys :
     /\ tid \notin s.run /\ tid \notin s.comp
     /\ are_dependencies_satisfied(MapDeps(tid), s.comp)}

\* a set_layout that never refuses
set_layout_rejected_never == FALSE

\* the check of set_layout (line 538)
set_layout_rejected == is_running

\* set_layout(layout, plan_id, execution), accepted; the tasks supplied carry
\* no status, so each gets "undone" (line 550)
SetLayout ==
  \E L \in offered :
    /\ ~set_layout_rejected
    /\ calls > 0
    /\ calls' = calls - 1
    /\ layout' = L
    /\ attached' = FALSE
    /\ status' = [t \in Tasks |-> IF t \in Layouts[L].tasks THEN "undone" ELSE "none"]
    /\ fb' = {}
    /\ nolock' = {}
    /\ last' = Did("set_layout", NoTask, L, 0)
    /\ UNCHANGED << mapLayout, is_running, running_tasks, completed_tasks,
                    pending_tasks, task_tasks, task_failure_count, MAX_FAILURES,
                    artifacts, slots_in_use, max_concurrency,
                    task_status, units, runs, fails, abort_event, closureVars, offered, slotVars, persistVars >>

\* set_layout raising ValueError
SetLayoutRejected ==
  /\ set_layout_rejected
  /\ UNCHANGED vars

\* start_execution, lines 116-139: the configuration is stored before the
\* checks; mf is the maxFailures of the supplied api_config
start_config(mf) == MAX_FAILURES' = mf

\* start_execution raising ValueError at lines 141-146
StartRejected ==
  \E mf \in 1..MaxMaxFailures :
    /\ start_rejected
    /\ calls > 0
    /\ calls' = calls - 1
    /\ start_config(mf)
    /\ last' = Did("start_rejected", NoTask, "none", 0)
    /\ UNCHANGED << fb, nolock, layout, mapLayout, attached, status, is_running,
                    running_tasks, completed_tasks, pending_tasks,
                    task_tasks, task_failure_count, artifacts,
                    slots_in_use, max_concurrency, task_status, units,
                    runs, fails, abort_event, closureVars, offered, slotVars, persistVars >>

\* An invocation of start_execution inside its try body:
\*   pc       "save" awaiting save_execution, "poll" asleep in the completion loop
\*   stopped  stop_async was called since the invocation entered the body
NewRun == [pc |-> "save", stopped |-> FALSE]

\* the terminal event of _execute_tasks (lines 234-237); k counts the terminal
\* events the invocation has emitted
terminal_event(running) ==
  Did(IF running THEN "execution-complete" ELSE "execution-error", NoTask, "none", 1)

\* start_execution, lines 116-191: from the call to the await of save_execution
Start ==
  \E cap \in 1..MaxCapacity, mf \in 1..MaxMaxFailures, resume \in Tasks \cup {NoTask} :
    /\ ~start_rejected
    /\ calls > 0
    /\ calls' = calls - 1
    /\ start_config(mf)
    /\ LET all == Layouts[layout].tasks
           rdi == ReverseIndex(all, Layouts[layout].deps)
           resuming == resume \in all
           to_reset == IF resuming THEN get_downstream_task_ids(resume, rdi) ELSE {}
           kept == IF resuming
                   THEN {t \in all \ to_reset : status[t] = "done"}
                   ELSE {}
       IN /\ is_running' = TRUE
          /\ max_concurrency' = initialize_max(cap)
          /\ slots_in_use' = 0
          /\ task_status' = NoSlots
          /\ running_tasks' = {}
          /\ completed_tasks' = kept
          /\ pending_tasks' = all \ kept
          /\ task_tasks' = {}
          /\ units' = DropHandles(units, Tasks)
          /\ mapLayout' = layout
          /\ attached' = TRUE
          /\ task_failure_count' = [t \in Tasks |-> 0]
          /\ status' = [t \in Tasks |->
                          IF t \in all /\ (~resuming \/ t \in to_reset)
                          THEN "undone" ELSE status[t]]
          /\ artifacts' = artifacts \ to_reset
          /\ runs' = BagAdd(runs, NewRun)
          /\ fb' = fb \ all
          /\ nolock' = TablesChanged(pending_tasks, running_tasks, completed_tasks,
                                    slots_in_use, task_status,
                                    all \ kept, {}, kept, 0, NoSlots)
          /\ abort_event' = "clear"
          /\ last' = Did("start", resume, layout, 0)
    /\ UNCHANGED << layout, fails, closureVars, offered, slotVars, persistVars >>

\* the finally block of start_execution (lines 201-204)
run_finally(r) ==
  /\ is_running' = FALSE
  /\ max_concurrency' = initialize_max(DEFAULT_MAX)
  /\ slots_in_use' = 0
  /\ task_status' = NoSlots
  /\ nolock' = {x \in {"pool"} : slots_in_use # 0 \/ task_status # NoSlots}
  /\ runs' = BagDel(runs, r)

\* the condition of the completion loop of _execute_tasks (line 230)
run_waits(comp, run) ==
  is_running /\ (Cardinality(comp) < Cardinality(ChainTasks) \/ run # {})

\* save_execution returned: lines 193-196 and _execute_tasks up to its first
\* sleep, or through the finally block when the loop does not wait
RunLaunch ==
  \E r \in BagToSet(runs) :
    /\ r.pc = "save"
    /\ LET s == Launch(Cur, get_ready_tasks(Cur))
       IN /\ units' = s.units
          /\ task_tasks' = s.tt
          /\ IF run_waits(completed_tasks, running_tasks)
             THEN /\ runs' = BagAdd(BagDel(runs, r), [r EXCEPT !.pc = "poll"])
                  /\ last' = Quiet
                  /\ UNCHANGED << is_running, max_concurrency, slots_in_use,
                                  task_status, nolock >>
             ELSE /\ run_finally(r)
                  /\ last' = terminal_event(is_running)
    /\ UNCHANGED << fb, layout, mapLayout, attached, status, running_tasks,
                    completed_tasks, pending_tasks, task_failure_count,
                    MAX_FAILURES, artifacts, calls, fails, abort_event,
                    closureVars, offered, slotVars, persistVars >>

\* a wake-up of the completion loop that finds its condition false
RunFinish ==
  \E r \in BagToSet(runs) :
    /\ r.pc = "poll"
    /\ ~run_waits(completed_tasks, running_tasks)
    /\ run_finally(r)
    /\ last' = terminal_event(is_running)
    /\ UNCHANGED << fb, layout, mapLayout, attached, status, running_tasks,
                    completed_tasks, pending_tasks, task_tasks,
                    task_failure_count, MAX_FAILURES, artifacts, units,
                    calls, fails, abort_event, closureVars, offered, slotVars, persistVars >>

\* save_execution raised (a failed write of execution.json): the handler of
\* lines 197-200 emits execution-error and re-raises, the finally block runs,
\* and run() of the route (execution.py 78-86) emits execution-error again
RunSaveError ==
  \E r \in BagToSet(runs) :
    /\ r.pc = "save"
    /\ run_finally(r)
    /\ last' = Did("execution-error", NoTask, "none", 2)
    /\ UNCHANGED << fb, layout, mapLayout, attached, status, running_tasks,
                    completed_tasks, pending_tasks, task_tasks,
                    task_failure_count, MAX_FAILURES, artifacts, units,
                    calls, fails, abort_event, closureVars, offered, slotVars, persistVars >>

\* stop_async seen from the invocations inside their body
stop_runs(B) ==
  BagMap(B, [r \in BagToSet(B) |-> [r EXCEPT !.stopped = TRUE]])

\* asyncio_task.cancel() of stop_async on the units that task_tasks holds:
\* CancelledError is thrown into the coroutine at its suspension point and no
\* handler of _execute_task catches it, so the coroutine ends there.
cancel_units(B) == B (-) SetToBag({u \in BagToSet(B) : u.h})

\* abort_event.set(): the external calls in progress see the event set
abort_units(B) ==
  BagMap(B, [r \in BagToSet(B) |->
               IF r.pc \in {"exec", "val"} THEN [r EXCEPT !.ab = TRUE] ELSE r])

\* stop_async
Stop ==
  /\ calls > 0
  /\ calls' = calls - 1
  /\ is_running' = FALSE
  /\ abort_event' = IF abort_event = "none" THEN "none" ELSE "set"
  /\ LET held == {t \in task_tasks : task_status[t] # "none"}
     IN /\ units' = abort_units(cancel_units(units))
        /\ task_status' = [t \in Tasks |-> IF t \in held THEN "none" ELSE task_status[t]]
        /\ slots_in_use' = slots_in_use - Cardinality(held)
  /\ task_tasks' = {}
  /\ running_tasks' = {}
  /\ runs' = stop_runs(runs)
  /\ last' = Did("stop", NoTask, "none", 0)
  /\ nolock' = {x \in {"running"} : running_tasks # {}}
  /\ UNCHANGED << fb, layout, mapLayout, attached, status, completed_tasks,
                  pending_tasks, task_failure_count, MAX_FAILURES,
                  artifacts, max_concurrency, fails, closureVars, offered, slotVars, persistVars >>

\* a retry_task that does not look at the task's status
retry_accepted_any_status(tid) ==
  /\ tid \in TaskMapKeys
  /\ attached
  /\ is_running

\* the conditions under which retry_task resets and relaunches the task
retry_accepted(tid) ==
  /\ tid \in TaskMapKeys
  /\ attached
  /\ status[tid] \in {"execution-failed", "validation-failed"}
  /\ is_running

\* a reset of every task that has failed
retry_reset_all_failed(s, tid) ==
  LET X == {t \in TaskMapKeys :
              s.stat[t] \in {"execution-failed", "validation-failed"}} \cup {tid}
  IN [s EXCEPT !.comp = @ \ X,
               !.run = @ \ X,
               !.pend = @ \cup X,
               !.cnt = [t \in Tasks |-> IF t \in X THEN 0 ELSE @[t]],
               !.tt = @ \ X,
               !.units = DropHandles(@, X),
               !.stat = [t \in Tasks |-> IF t \in X THEN "undone" ELSE @[t]],
               !.fb = @ \ X,
               !.art = @ \ X]

\* retry_task, lines 577-584: the reset of the task
retry_reset(s, tid) ==
  outside_lock(s,
    [s EXCEPT !.comp = @ \ {tid},
              !.run = @ \ {tid},
              !.pend = @ \cup {tid},
              !.cnt[tid] = 0,
              !.tt = @ \ {tid},
              !.units = DropHandles(@, {tid}),
              !.stat[tid] = "undone",
              !.fb = @ \ {tid},
              !.art = @ \ {tid}])

\* retry_task(task_id) returning True
RetryTask ==
  \E tid \in Tasks :
    /\ retry_accepted(tid)
    /\ calls > 0
    /\ calls' = calls - 1
    /\ LET s1 == [retry_reset(Cur, tid) EXCEPT
                    !.last = Did("retry", tid, mapLayout, 0)]
       IN Commit(schedule_ready_tasks(persist_execution(s1), {tid}))
    /\ UNCHANGED << layout, mapLayout, attached, is_running, MAX_FAILURES,
                    max_concurrency, runs, abort_event, closureVars, offered, slotVars >>

\* retry_task(task_id) returning False
RetryTaskRejected ==
  \E tid \in Tasks :
    /\ ~retry_accepted(tid)
    /\ UNCHANGED vars

\* ------------------------------------------------------- specification
NoGraph == [n \in 1..ClosureNodes |-> {}]

Init ==
  /\ layout = "none"
  /\ mapLayout = "none"
  /\ attached = TRUE
  /\ status = [t \in Tasks |-> "none"]
  /\ is_running = FALSE
  /\ running_tasks = {}
  /\ completed_tasks = {}
  /\ pending_tasks = {}
  /\ task_tasks = {}
  /\ task_failure_count = [t \in Tasks |-> 0]
  /\ MAX_FAILURES = RUNNER_MAX_FAILURES
  /\ artifacts = {}
  /\ slots_in_use = 0
  /\ max_concurrency = DEFAULT_MAX
  /\ task_status = NoSlots
  /\ units = EmptyBag
  /\ runs = EmptyBag
  /\ calls = MaxCalls
  /\ fails = MaxFailEvents
  /\ last = Quiet
  /\ fb = {}
  /\ nolock = {}
  /\ abort_event = "none"
  /\ offered = {"fork", "mixed"}
  /\ workers = pool_init
  /\ wret = PoolDid("initialize", NoTask, 0)
  /\ cg = NoGraph
  /\ ct = 0
  /\ cres = {}
  /\ persist_waiting = 0
  /\ persist_lock = FALSE
  /\ persist_budget = 0

Next ==
  \/ SetLayout
  \/ SetLayoutRejected
  \/ Start
  \/ StartRejected
  \/ RunLaunch
  \/ RunFinish
  \/ RunSaveError
  \/ Stop
  \/ RetryTask
  \/ RetryTaskRejected
  \/ UnitStart
  \/ UnitAcquire
  \/ ExecPass
  \/ ExecFail
  \/ ExecCancel
  \/ ValPass
  \/ ValFail
  \/ ValCancel
  \/ ExecFailWake
  \/ ValFailWake

Spec == Init /\ [][Next]_vars

\* ------------------------------------------- runs restarted after a stop
\* no execute or validate call fails; one more external call is allowed
MaxRestartCalls == 4

InitRestart ==
  /\ layout = "none"
  /\ mapLayout = "none"
  /\ attached = TRUE
  /\ status = [t \in Tasks |-> "none"]
  /\ is_running = FALSE
  /\ running_tasks = {}
  /\ completed_tasks = {}
  /\ pending_tasks = {}
  /\ task_tasks = {}
  /\ task_failure_count = [t \in Tasks |-> 0]
  /\ MAX_FAILURES = RUNNER_MAX_FAILURES
  /\ artifacts = {}
  /\ slots_in_use = 0
  /\ max_concurrency = DEFAULT_MAX
  /\ task_status = NoSlots
  /\ units = EmptyBag
  /\ runs = EmptyBag
  /\ calls = MaxRestartCalls
  /\ fails = 0
  /\ last = Quiet
  /\ fb = {}
  /\ nolock = {}
  /\ abort_event = "none"
  /\ offered = {"fork", "mixed"}
  /\ workers = pool_init
  /\ wret = PoolDid("initialize", NoTask, 0)
  /\ cg = NoGraph
  /\ ct = 0
  /\ cres = {}
  /\ persist_waiting = 0
  /\ persist_lock = FALSE
  /\ persist_budget = 0

NextRestart ==
  \/ SetLayout
  \/ SetLayoutRejected
  \/ Start
  \/ StartRejected
  \/ RunLaunch
  \/ RunFinish
  \/ RunSaveError
  \/ Stop
  \/ RetryTask
  \/ RetryTaskRejected
  \/ UnitStart
  \/ UnitAcquire
  \/ ExecPass
  \/ ValPass

SpecRestart == InitRestart /\ [][NextRestart]_vars

\* ------------------------------------------- writes of the snapshot store
\* The writers of execution.json: the coroutines _persist_execution_async
\* that a status update creates, and start_execution at line 191.
MaxPersist == 2

\* _persist_execution_async enters "async with self._persist_lock" and awaits
\* save_execution (lines 72-75)
PersistEnter ==
  /\ persist_waiting > 0
  /\ ~persist_lock
  /\ persist_waiting' = persist_waiting - 1
  /\ persist_lock' = TRUE
  /\ UNCHANGED << layout, mapLayout, attached, status, is_running, running_tasks,
                  completed_tasks, pending_tasks, task_tasks, task_failure_count,
                  MAX_FAILURES, artifacts, slots_in_use, max_concurrency,
                  task_status, units, runs, calls, fails, last, fb, nolock,
                  abort_event, offered, persist_budget, closureVars, slotVars >>

\* save_execution returned or raised (lines 75-77): the lock is released
PersistDone ==
  /\ persist_lock
  /\ persist_lock' = FALSE
  /\ UNCHANGED << layout, mapLayout, attached, status, is_running, running_tasks,
                  completed_tasks, pending_tasks, task_tasks, task_failure_count,
                  MAX_FAILURES, artifacts, slots_in_use, max_concurrency,
                  task_status, units, runs, calls, fails, last, fb, nolock,
                  abort_event, offered, persist_waiting, persist_budget,
                  closureVars, slotVars >>

InitPersist ==
  /\ layout = "none"
  /\ mapLayout = "none"
  /\ attached = TRUE
  /\ status = [t \in Tasks |-> "none"]
  /\ is_running = FALSE
  /\ running_tasks = {}
  /\ completed_tasks = {}
  /\ pending_tasks = {}
  /\ task_tasks = {}
  /\ task_failure_count = [t \in Tasks |-> 0]
  /\ MAX_FAILURES = RUNNER_MAX_FAILURES
  /\ artifacts = {}
  /\ slots_in_use = 0
  /\ max_concurrency = DEFAULT_MAX
  /\ task_status = NoSlots
  /\ units = EmptyBag
  /\ runs = EmptyBag
  /\ calls = MaxRestartCalls
  /\ fails = 0
  /\ last = Quiet
  /\ fb = {}
  /\ nolock = {}
  /\ abort_event = "none"
  /\ offered = {"pair", "mixed"}
  /\ workers = pool_init
  /\ wret = PoolDid("initialize", NoTask, 0)
  /\ cg = NoGraph
  /\ ct = 0
  /\ cres = {}
  /\ persist_waiting = 0
  /\ persist_lock = FALSE
  /\ persist_budget = MaxPersist

NextPersist ==
  \/ SetLayout
  \/ SetLayoutRejected
  \/ Start
  \/ StartRejected
  \/ RunLaunch
  \/ RunFinish
  \/ RunSaveError
  \/ Stop
  \/ RetryTask
  \/ RetryTaskRejected
  \/ UnitStart
  \/ UnitAcquire
  \/ ExecPass
  \/ ValPass
  \/ PersistEnter
  \/ PersistDone

SpecPersist == InitPersist /\ [][NextPersist]_vars

\* ------------------------------------------------ runs that nobody stops
\* save_execution succeeds and stop_async is never called (so no call sees an
\* abort event); every layout is offered.
InitFullRun ==
  /\ layout = "none"
  /\ mapLayout = "none"
  /\ attached = TRUE
  /\ status = [t \in Tasks |-> "none"]
  /\ is_running = FALSE
  /\ running_tasks = {}
  /\ completed_tasks = {}
  /\ pending_tasks = {}
  /\ task_tasks = {}
  /\ task_failure_count = [t \in Tasks |-> 0]
  /\ MAX_FAILURES = RUNNER_MAX_FAILURES
  /\ artifacts = {}
  /\ slots_in_use = 0
  /\ max_concurrency = DEFAULT_MAX
  /\ task_status = NoSlots
  /\ units = EmptyBag
  /\ runs = EmptyBag
  /\ calls = MaxFullRunCalls
  /\ fails = MaxFullRunFails
  /\ last = Quiet
  /\ fb = {}
  /\ nolock = {}
  /\ abort_event = "none"
  /\ offered = LayoutIds
  /\ workers = pool_init
  /\ wret = PoolDid("initialize", NoTask, 0)
  /\ cg = NoGraph
  /\ ct = 0
  /\ cres = {}
  /\ persist_waiting = 0
  /\ persist_lock = FALSE
  /\ persist_budget = 0

NextFullRun ==
  \/ SetLayout
  \/ SetLayoutRejected
  \/ Start
  \/ StartRejected
  \/ RunLaunch
  \/ RunFinish
  \/ RetryTask
  \/ RetryTaskRejected
  \/ UnitStart
  \/ UnitAcquire
  \/ ExecPass
  \/ ExecFail
  \/ ValPass
  \/ ValFail
  \/ ExecFailWake
  \/ ValFailWake

SpecFullRun == InitFullRun /\ [][NextFullRun]_vars

\* The event loop runs every coroutine that is ready: a unit that can take
\* its next step takes it, an external call that does not fail returns, and
\* the run body wakes from its sleep.  Failures and external calls are not
\* owed; they are bounded by fails and calls.  Each conjunct is weak
\* fairness of the action, with its enabling condition written out.
CanRunLaunch == \E r \in BagToSet(runs) : r.pc = "save"
CanRunFinish ==
  /\ \E r \in BagToSet(runs) : r.pc = "poll"
  /\ ~run_waits(completed_tasks, running_tasks)

FairFullRun ==
  /\ ([]<>(~CanRunLaunch) \/ []<><<RunLaunch>>_vars)
  /\ ([]<>(~CanRunFinish) \/ []<><<RunFinish>>_vars)
  /\ ([]<>(UnitsAt({"new"}) = {}) \/ []<><<UnitStart>>_vars)
  /\ ([]<>(UnitsAt({"acq"}) = {}) \/ []<><<UnitAcquire>>_vars)
  /\ ([]<>(UnitsAt({"exec"}) = {}) \/ []<><<ExecPass>>_vars)
  /\ ([]<>(UnitsAt({"val"}) = {}) \/ []<><<ValPass>>_vars)
  /\ ([]<>(UnitsAt({"efail"}) = {}) \/ []<><<ExecFailWake>>_vars)
  /\ ([]<>(UnitsAt({"vfail"}) = {}) \/ []<><<ValFailWake>>_vars)

SpecFullRunFair == SpecFullRun /\ FairFullRun

\* --------------------------------------- the rollback closure on any DAG
\* Graphs on the nodes 1..ClosureNodes whose edges go from a node to a
\* higher one (cg[b] = dependencies of b), built edge by edge.
Nodes == 1..ClosureNodes

AddEdge ==
  \E a \in Nodes, b \in Nodes :
    /\ a < b
    /\ a \notin cg[b]
    /\ cg' = [cg EXCEPT ![b] = @ \cup {a}]
    /\ ct' = 0
    /\ cres' = {}
    /\ UNCHANGED << runVars, slotVars >>

\* _rollback_task, lines 484-503, for task T of the graph
ComputeClosure ==
  \E T \in Nodes :
    /\ ct' = T
    /\ cres' = tasks_to_rollback(T, cg[T], ReverseIndex(Nodes, cg))
    /\ cg' = cg
    /\ UNCHANGED << runVars, slotVars >>

NextClosure == AddEdge \/ ComputeClosure

SpecClosure == Init /\ [][NextClosure]_vars

\* --------------------------------------------------- the slot pool alone
NextPool ==
  PoolAssign \/ PoolRelease \/ PoolSetStatus \/ PoolInitialize \/ PoolStats

SpecPool == Init /\ [][NextPool]_vars

\* ------------------------------------------------------------ type check
TypeOK ==
  /\ layout \in LayoutIds \cup {"none"}
  /\ mapLayout \in LayoutIds \cup {"none"}
  /\ status \in [Tasks -> Statuses \cup {"none"}]
  /\ is_running \in BOOLEAN
  /\ running_tasks \subseteq Tasks
  /\ completed_tasks \subseteq Tasks
  /\ pending_tasks \subseteq Tasks
  /\ task_tasks \subseteq Tasks
  /\ task_failure_count \in [Tasks -> 0..MaxFailEvents]
  /\ task_status \in [Tasks -> {"none", "busy", "validating"}]
  /\ \A u \in BagToSet(units) : u.h => (u.t \in task_tasks /\ CopiesIn(u, units) = 1)
  /\ is_running => (attached /\ mapLayout = layout)
  /\ persist_waiting \in 0..MaxPersist
  /\ persist_lock \in BOOLEAN
  /\ persist_budget \in 0..MaxPersist
  /\ abort_event \in {"none", "clear", "set"}
  /\ offered \subseteq LayoutIds
  /\ nolock \subseteq {"pending", "running", "completed", "pool"}
  /\ workers \in [WorkerIds -> [status : StatusStrings, taskId : Tasks \cup {NoTask}]]

\* ------------------------------------------------- the closure as specified
\* tasks reachable from S through the reverse-dependency relation of deps
RECURSIVE ReachableDependents(_, _, _)
ReachableDependents(S, nodes, deps) ==
  LET more == S \cup {t \in nodes : deps[t] \cap S # {}}
  IN IF more = S THEN S ELSE ReachableDependents(more, nodes, deps)

\* {T} + T's direct dependencies + everything reachable from any of them
ClaimedClosure(T, nodes, deps) ==
  ReachableDependents({T} \cup deps[T], nodes, deps)

\* the closure of the rollback the last step performed
LastClosure ==
  ClaimedClosure(last.t, Layouts[last.L].tasks, Layouts[last.L].deps)

\* ------------------------------------------------------------------ claims
\* C1: during a run no task is done while one of its dependencies is not
\* done, tasks marked done by the acquire fallback excepted.
C1_DoneOnlyAfterDependencies ==
  is_running =>
    \A t \in ChainTasks :
      (status[t] = "done" /\ t \notin fb) =>
        \A d \in Layouts[layout].deps[t] : status[d] = "done"

\* C2: during a run the running set never holds more task ids than the
\* capacity the pool was initialized with at the start.
C2_RunningWithinCapacity ==
  is_running => Cardinality(running_tasks) <= max_concurrency

\* C3: between steps of the scheduler the number of slots bound to a task
\* equals the size of the running set.
C3_SlotsMatchRunning ==
  is_running =>
    Cardinality({t \in Tasks : task_status[t] # "none"}) = Cardinality(running_tasks)

\* C4: for every acyclic graph and task T, tasks_to_rollback is exactly T, its
\* direct dependencies and all they reach through the reverse index.
C4_ClosureExact ==
  ct # 0 => cres = ClaimedClosure(ct, Nodes, cg)

\* a dependency of a dependency stays out, a dependent two edges away is in
C4_Witness ==
  /\ ct # 0
  /\ \E d \in cg[ct] : \E e \in cg[d] : e \notin cres
  /\ \E x \in cres :
       /\ x # ct
       /\ x \notin cg[ct]
       /\ cg[x] \cap ({ct} \cup cg[ct]) = {}

\* C5: when a rollback returns, every task of its closure is undone, pending,
\* neither completed nor running, without failure count, slot or artifact.
C5_RollbackResetsClosure ==
  last.op = "rollback" =>
    \A x \in LastClosure :
      /\ status[x] = "undone"
      /\ x \in pending_tasks
      /\ x \notin completed_tasks
      /\ x \notin running_tasks
      /\ task_failure_count[x] = 0
      /\ task_status[x] = "none"
      /\ x \notin artifacts

\* a rollback that ran while the unit of another closure member was in flight
C5_Witness ==
  /\ last.op = "rollback"
  /\ \E u \in BagToSet(units) :
       /\ u.pc \in {"exec", "val"}
       /\ u.t \in LastClosure
       /\ u.t # last.t

\* C6: a rollback leaves is_running and every task outside its closure as
\* they were: status, set membership, failure count, handle, units, slot.
C6_RollbackFrame ==
  [][ last'.op = "rollback" =>
        /\ is_running' = is_running
        /\ \A x \in Tasks \ LastClosure' :
             /\ status'[x] = status[x]
             /\ (x \in pending_tasks') = (x \in pending_tasks)
             /\ (x \in running_tasks') = (x \in running_tasks)
             /\ (x \in completed_tasks') = (x \in completed_tasks)
             /\ task_failure_count'[x] = task_failure_count[x]
             /\ (x \in task_tasks') = (x \in task_tasks)
             /\ task_status'[x] = task_status[x]
             /\ (x \in artifacts') = (x \in artifacts)
             /\ \A u \in BagToSet(units) \cup BagToSet(units') :
                  u.t = x => CopiesIn(u, units') = CopiesIn(u, units)
    ]_vars

\* a rollback with a task outside the closure in the middle of its work
C6_Witness ==
  /\ last.op = "rollback"
  /\ is_running
  /\ \E x \in Tasks \ LastClosure :
       /\ x \in running_tasks
       /\ task_status[x] # "none"

\* the units asleep after a failure
Backoff == UnitsAt({"efail", "vfail"})

BackoffCount == SumCopies(Backoff, units)

C8_CancellationIsNoFailure ==
  [][ last'.op \in {"cancelled", "stop"} =>
        /\ status' = status
        /\ task_failure_count' = task_failure_count
        /\ fails' = fails
        /\ pending_tasks' = pending_tasks
        /\ completed_tasks' = completed_tasks
        /\ BagCardinality(units') < BagCardinality(units) \/ last'.op = "stop"
        /\ \A u \in BagToSet(units') :
             \/ CopiesIn(u, units') <= CopiesIn(u, units)
             \/ /\ last'.op = "stop"
                /\ u.pc \in {"exec", "val"}
                /\ u.ab
                /\ [u EXCEPT !.ab = FALSE] \in BagToSet(units)
    ]_vars

\* an execute or validate call ended by the abort event
C8_Witness ==
  /\ last.op = "cancelled"
  /\ abort_event = "set"

\* C9: at most one start_execution is inside its try body at any time.
C9_OneRunBody ==
  BagCardinality(runs) <= 1

\* C10: a start made while a run is active or no layout is set is rejected
\* and leaves is_running, the statuses, the three sets, the pool and the
\* units as they were.
C10_RejectedStartChangesNothing ==
  [][ (/\ last'.op \in {"start", "start_rejected"}
       /\ calls' < calls
       /\ (is_running \/ layout = "none")) =>
        /\ last'.op = "start_rejected"
        /\ UNCHANGED << is_running, status, pending_tasks, running_tasks,
                        completed_tasks, slots_in_use, max_concurrency,
                        task_status, units, task_tasks, runs >>
    ]_vars

\* a start rejected because a run is active
C10_Witness ==
  /\ last.op = "start_rejected"
  /\ is_running
  /\ units # EmptyBag

\* C11: set_layout changes nothing while a run is active; accepted, it makes
\* the task list exactly the tasks of the layout supplied, each undone.
C11_SetLayout ==
  [][ /\ is_running =>
           /\ layout' = layout
           /\ last'.op # "set_layout"
      /\ last'.op = "set_layout" =>
           /\ layout' = last'.L
           /\ {t \in Tasks : status'[t] # "none"} = Layouts[last'.L].tasks
           /\ \A t \in Layouts[last'.L].tasks : status'[t] = "undone"
           /\ is_running' = is_running
    ]_vars

\* a layout of two tasks replaces the three tasks of the run before
C11_Witness ==
  /\ last.op = "set_layout"
  /\ last.L = "pair"
  /\ mapLayout \notin {"none", "pair"}
  /\ status["C"] = "none"

\* C12: after stop_async the run is not running, no slot is busy or
\* validating, and no unit that was in flight is left.
C12_StopCancelsEverything ==
  last.op = "stop" =>
    /\ ~is_running
    /\ slots_in_use = 0
    /\ \A t \in Tasks : task_status[t] = "none"
    /\ units = EmptyBag

FailedStatuses == {"execution-failed", "validation-failed"}

RetryResetsOnly(id) ==
  /\ status'[id] = "undone"
  /\ id \in pending_tasks'
  /\ id \notin completed_tasks'
  /\ id \notin running_tasks'
  /\ task_failure_count'[id] = 0
  /\ id \notin artifacts'
  /\ \A x \in Tasks \ {id} :
       /\ status'[x] = status[x]
       /\ (x \in pending_tasks') = (x \in pending_tasks)
       /\ (x \in running_tasks') = (x \in running_tasks)
       /\ (x \in completed_tasks') = (x \in completed_tasks)
       /\ task_failure_count'[x] = task_failure_count[x]
       /\ (x \in task_tasks') = (x \in task_tasks)
       /\ task_status'[x] = task_status[x]
       /\ (x \in artifacts') = (x \in artifacts)
       /\ \A u \in BagToSet(units) \cup BagToSet(units') :
            u.t = x => CopiesIn(u, units') = CopiesIn(u, units)

\* the step created a unit for id and stored its handle
Relaunched(id) ==
  /\ id \in task_tasks'
  /\ BagCardinality(units') = BagCardinality(units) + 1
  /\ \E u \in BagToSet(units') : u.t = id /\ u.pc = "new" /\ u.h

ResumeSet(R) ==
  ReachableDependents({R}, Layouts[layout].tasks, Layouts[layout].deps)

WellFormed(L) == L # "none" /\ \A t \in Layouts[L].tasks : Layouts[L].out[t]

\* the state the run is claimed to end in
AllDone ==
  /\ completed_tasks = ChainTasks
  /\ pending_tasks = {}
  /\ running_tasks = {}
  /\ \A t \in ChainTasks : status[t] = "done"

\* a task becomes done only when each of its dependencies is done
DoneInDependencyOrder ==
  \A t \in Tasks :
    (status'[t] = "done" /\ status[t] # "done") =>
      \A d \in Layouts[layout].deps[t] : status[d] = "done" /\ d \in completed_tasks

TerminalEvents == {"execution-complete", "execution-error"}

\* C17: an invocation of start_execution that was accepted leaves its body
\* with exactly one terminal event, execution-complete or execution-error.
C17_OneTerminalEvent ==
  [][ BagCardinality(runs') < BagCardinality(runs) =>
        (last'.op \in TerminalEvents /\ last'.k = 1) ]_vars

\* the step removed invocation r from the run bodies
RunLeft(r) == CopiesIn(r, runs) > 0 /\ runs' = BagDel(runs, r)

\* C18: execution-complete is emitted only when every task is completed, none
\* is running and the emitting run was not stopped; a stopped run ends with
\* execution-error.
C18_CompleteOnlyWhenAllCompleted ==
  [][ /\ last'.op = "execution-complete" =>
           /\ completed_tasks' = ChainTasks'
           /\ running_tasks' = {}
           /\ \E r \in BagToSet(runs) : RunLeft(r) /\ ~r.stopped
      /\ \A r \in BagToSet(runs) :
           (RunLeft(r) /\ r.stopped) => last'.op = "execution-error" ]_vars

\* an uncompleted task has a unit in flight or waits for a dependency that
\* is itself uncompleted
NoStall ==
  (is_running /\ \A r \in BagToSet(runs) : r.pc # "save") =>
    \A t \in ChainTasks \ completed_tasks :
      \/ \E u \in BagToSet(units) : u.t = t
      \/ \E d \in Layouts[layout].deps[t] : d \notin completed_tasks

RunCompleted ==
  /\ last.op = "execution-complete"
  /\ completed_tasks = ChainTasks
  /\ running_tasks = {}

\* C19: under fair scheduling, with finitely many failures and no stop, an
\* active run reaches a state where every task is completed, none is running
\* and execution-complete is emitted; and no state of an active run has an
\* uncompleted task that neither has a unit in flight nor waits for an
\* uncompleted dependency.
C19_RunTerminates ==
  /\ []NoStall
  /\ (is_running ~> RunCompleted)

\* a run has completed although a call failed and tasks were rolled back
C19_Witness ==
  /\ RunCompleted
  /\ fails = 0
  /\ layout = "join"
  /\ \A t \in ChainTasks : status[t] = "done"

IdleSlots(w) == {i \in WorkerIds : w[i].status = "idle"}

SlotsOf(w, tid) == {i \in WorkerIds : w[i].taskId = tid}

\* C21: release_by_task_id resets the slot bound to the task to idle and
\* unbound when it is busy, validating or failed, changes no other slot,
\* changes nothing when no slot is bound to the task, and a second release
\* of the same task leaves the pool as the first one left it.
C21_ReleaseIdempotent ==
  [][ wret'.op = "release" =>
        /\ SlotsOf(workers, wret'.t) = {} => workers' = workers
        /\ \A i \in WorkerIds :
             workers'[i] # workers[i] =>
               /\ i = wret'.r
               /\ workers[i].taskId = wret'.t
               /\ workers[i].status \in {"busy", "validating", "failed"}
               /\ workers'[i] = [status |-> "idle", taskId |-> NoTask]
        /\ pool_release_by_task_id(workers', wret'.t) = workers' ]_vars

\* C22: get_stats returns, for each of the four statuses, the number of
\* slots that have it once the call has returned, and these sum to the
\* capacity; the call resets the slots whose status is none of the four and
\* leaves every other slot alone, so the counts always sum to the capacity
\* and the pool is reinitialized only if they do not.
C22_StatsCountSlots ==
  [][ wret'.op = "stats" =>
        /\ wret'.s = StatsOf(workers')
        /\ wret'.s.total = PoolWorkers
        /\ StatsSum(wret'.s) = PoolWorkers
        /\ \A i \in WorkerIds :
             workers'[i] = IF workers[i].status \in WorkerStatuses
                           THEN workers[i]
                           ELSE [status |-> "idle", taskId |-> NoTask] ]_vars

\* get_stats was called on a pool with a slot of unknown status and reported
\* the busy and the validating slot that the pool still has
C22_Witness ==
  /\ wret.op = "stats"
  /\ wret.s = [total |-> PoolWorkers, busy |-> 1, validating |-> 1, idle |-> 1, failed |-> 0]
  /\ workers[1].status = "busy"
  /\ workers[2] = [status |-> "idle", taskId |-> NoTask]
  /\ workers[3].status = "validating"

\* the transitions of a task's status that the state machine declares
DeclaredTransitions ==
  {<<"undone", "doing">>, <<"doing", "validating">>,
   <<"doing", "execution-failed">>, <<"validating", "done">>,
   <<"validating", "validation-failed">>}
  \cup {<<f, "doing">> : f \in FailedStatuses}
  \cup {<<f, "undone">> : f \in FailedStatuses}

\* A step changes the status of t from a to b by declared transitions.  A
\* unit whose task has no output spec writes doing (line 266) and then
\* execution-failed (line 455) without suspending in between: two writes,
\* two transitions, one step.
ByDeclaredTransitions(t, a, b) ==
  \/ <<a, b>> \in DeclaredTransitions
  \/ /\ mapLayout # "none"
     /\ ~Layouts[mapLayout].out[t]
     /\ <<a, "doing">> \in DeclaredTransitions
     /\ b = "execution-failed"

\* C23: after set_layout and start have initialized the statuses, every
\* change of a task's status is one of the declared transitions.
C23_DeclaredTransitionsOnly ==
  [][ last'.op \notin {"set_layout", "start"} =>
        \A t \in Tasks :
          status'[t] # status[t] => ByDeclaredTransitions(t, status[t], status'[t]) ]_vars

\* C24: a task's status becomes doing only in a state where each of its
\* dependencies has status done and is in completed_tasks.
C24_DoingOnlyAfterDependencies ==
  [][ \A t \in Tasks :
        (status'[t] = "doing" /\ status[t] # "doing") =>
          \A d \in MapDeps(t) : status[d] = "done" /\ d \in completed_tasks ]_vars

\* C25: during a run, at every suspension point, pending_tasks, running_tasks
\* and completed_tasks are pairwise disjoint and together are the task ids.
C25_SetsPartitionTasks ==
  is_running =>
    /\ pending_tasks \cap running_tasks = {}
    /\ pending_tasks \cap completed_tasks = {}
    /\ running_tasks \cap completed_tasks = {}
    /\ pending_tasks \cup running_tasks \cup completed_tasks = ChainTasks

\* C26: no step of a run changes the pool or one of pending_tasks,
\* running_tasks, completed_tasks outside "async with self._worker_lock".
C26_MutationsUnderLock == nolock = {}

\* the units with their handle flag disregarded
Positions(B) == BagMap(B, [r \in BagToSet(B) |-> [r EXCEPT !.h = FALSE]])

\* a unit of task t took the step: it left the position it was at
UnitOfActed(t) ==
  \E u \in BagToSet(Positions(units)) :
    u.t = t /\ CopiesIn(u, Positions(units')) < CopiesIn(u, Positions(units))

\* the step wrote the status or the failure count of t
Written(t) ==
  status'[t] # status[t] \/ task_failure_count'[t] # task_failure_count[t]

\* the steps of callers: set_layout, start_execution, retry_task, stop_async
CallerOps == {"set_layout", "start", "retry", "stop"}

AcquiringUnitActed ==
  \E u \in BagToSet(Positions(units)) :
    u.pc = "acq" /\ CopiesIn(u, Positions(units')) < CopiesIn(u, Positions(units))

\* C28: a unit that wakes in the acquire loop without a slot after the run
\* has stopped ends without changing a status, completed_tasks or
\* pending_tasks and without launching a unit.
C28_StoppedAcquireIsSilent ==
  [][ (~is_running /\ last'.op \notin CallerOps /\ AcquiringUnitActed) =>
        /\ status' = status
        /\ completed_tasks' = completed_tasks
        /\ pending_tasks' = pending_tasks
        /\ BagCardinality(units') = BagCardinality(units) - 1 ]_vars

\* the unit of t that had made every allowed attempt woke without a slot
ExhaustedUnitActed(t) ==
  /\ last'.op \notin CallerOps
  /\ \E u \in BagToSet(Positions(units)) :
       /\ u.t = t /\ u.pc = "acq" /\ u.rc >= AcquireRetryBound
       /\ CopiesIn(u, Positions(units')) < CopiesIn(u, Positions(units))

\* coroutines of d created and not yet run
NewUnitsOf(B, d) == {u \in BagToSet(B) : u.t = d /\ u.pc = "new"}

LaunchedIn(B0, B1, d) ==
  \E u \in NewUnitsOf(B1, d) : u.h /\ CopiesIn(u, B1) > CopiesIn(u, B0)

\* what lines 255-258 leave of task t, with no execute and no validate call
MarkedDoneUnexecuted(t) ==
  /\ t \in completed_tasks'
  /\ t \notin pending_tasks'
  /\ t \notin running_tasks'
  /\ status'[t] = "done"
  /\ artifacts' = artifacts
  /\ \A u \in BagToSet(units') : u.t = t /\ u.pc \in {"exec", "val"} =>
         CopiesIn(u, units') <= CopiesIn(u, units)

MalformedUnitActed(t) ==
  /\ last'.op \notin CallerOps
  /\ is_running
  /\ slots_in_use < max_concurrency
  /\ \E u \in BagToSet(Positions(units)) :
       /\ u.t = t /\ ~Layouts[u.L].out[t]
       /\ u.pc = "new" \/ (u.pc = "acq" /\ u.rc < AcquireRetryBound)
       /\ CopiesIn(u, Positions(units')) < CopiesIn(u, Positions(units))

\* C30: an error raised outside the caught execute step releases the task's
\* slot, sets the status execution-failed, leaves the failure counts alone,
\* retries nothing and rolls nothing back, and schedules the direct
\* dependents.
C30_UncaughtErrorHandled ==
  [][ \A t \in Tasks :
        MalformedUnitActed(t) =>
          /\ task_status'[t] = "none" /\ slots_in_use' <= slots_in_use
          /\ status'[t] = "execution-failed"
          /\ task_failure_count' = task_failure_count
          /\ last'.op \notin {"retried", "rollback"}
          /\ \A u \in BagToSet(units') : u.t = t => CopiesIn(u, units') <= CopiesIn(u, units)
          /\ \A d \in Tasks \ Dependents(t) : ~LaunchedIn(units, units', d)
          /\ \A d \in Dependents(t) :
               ( /\ are_dependencies_satisfied(MapDeps(d), completed_tasks')
                 /\ d \in pending_tasks'
                 /\ d \notin running_tasks'
                 /\ d \notin completed_tasks'
                 /\ d \notin task_tasks ) =>
                 LaunchedIn(units, units', d) ]_vars

\* the task without output spec failed on its first attempt: no slot is
\* bound to it, no failure is counted, and its dependent was launched
C30_Witness ==
  /\ is_running
  /\ \E t \in TaskMapKeys :
       /\ ~Layouts[mapLayout].out[t]
       /\ status[t] = "execution-failed"
       /\ task_status[t] = "none"
       /\ task_failure_count[t] = 0
       /\ \A u \in BagToSet(units) : u.t # t
       /\ \E d \in Dependents(t) : \E u \in NewUnitsOf(units, d) : u.h

\* C31: from the acquisition of a slot to the end of the attempt the task
\* holds its slot: busy while its unit executes, validating while its unit
\* validates.
C31_SlotHeldThroughAttempt ==
  \A u \in BagToSet(units) :
    /\ u.pc = "exec" => task_status[u.t] = "busy"
    /\ u.pc = "val" => task_status[u.t] = "validating"

\* writes of execution.json in progress: the holder of _persist_lock and the
\* invocations of start_execution awaiting save_execution at line 191
SavingRuns == [r \in {x \in BagToSet(runs) : x.pc = "save"} |-> CopiesIn(r, runs)]

WritesInProgress ==
  (IF persist_lock THEN 1 ELSE 0) + BagCardinality(SavingRuns)

\* C32: at most one write of the execution snapshot is in progress.
C32_OneSnapshotWrite == WritesInProgress <= 1

\* the live coroutines run_with_error_handling of task t
LiveUnitsOf(t) == [u \in {x \in BagToSet(units) : x.t = t} |-> CopiesIn(u, units)]

\* C33: each task has at most one live scheduling unit.
C33_OneLiveUnitPerTask ==
  \A t \in Tasks : BagCardinality(LiveUnitsOf(t)) <= 1

\* C34: during a run a task is in completed_tasks exactly when its status is
\* done, and when execution-complete is emitted every task is done.
C34_CompletedIffDone ==
  /\ is_running =>
       \A t \in TaskMapKeys : t \in completed_tasks <=> status[t] = "done"
  /\ last.op = "execution-complete" =>
       \A t \in ChainTasks : status[t] = "done"

\* C35: while no run is active no task is doing or validating and no slot
\* of the pool is bound to a task.
C35_IdleWhenNotRunning ==
  ~is_running =>
    /\ \A t \in Tasks : status[t] \notin {"doing", "validating"}
    /\ task_status = NoSlots
    /\ slots_in_use = 0

\* C36: between a stop_async and the next accepted start (the abort event is
\* set and no run is active) no step of a unit or of a run body changes a
\* status or the membership of pending_tasks or completed_tasks.
C36_NothingChangesAfterStop ==
  [][ (~is_running /\ abort_event = "set" /\ last'.op \notin CallerOps) =>
        /\ status' = status
        /\ pending_tasks' = pending_tasks
        /\ completed_tasks' = completed_tasks ]_vars

\* C37: a start rejected because a run is active leaves the configuration
\* of the run (MAX_FAILURES) as it was.
C37_RejectedStartKeepsConfig ==
  [][ (is_running /\ last'.op = "start_rejected" /\ calls' < calls) =>
        MAX_FAILURES' = MAX_FAILURES ]_vars

\* C38: during a run the failure count of every task lies between 0 and
\* MAX_FAILURES.
C38_FailureCountBounded ==
  is_running =>
    \A t \in Tasks : task_failure_count[t] >= 0 /\ task_failure_count[t] <= MAX_FAILURES

\* the task ids recorded in _task_status
SlotHolders == {t \in Tasks : task_status[t] # "none"}

\* C39: the counter of the pool lies between 0 and max_concurrency and equals
\* the number of task ids recorded as holding a slot; max_concurrency is at
\* least 1.
C39_CounterMatchesHolders ==
  /\ slots_in_use >= 0
  /\ slots_in_use <= max_concurrency
  /\ slots_in_use = Cardinality(SlotHolders)
  /\ max_concurrency >= 1

====
